---- MODULE Spec2Model ----
(***************************************************************************)
(* A model of src/src/components/timeline.ts: the TimelineEventManager     *)
(* (coverage window, merged dataset, fetches) and the                      *)
(* FrigateCardTimelineCore element (widget window and selection, thumbnail *)
(* playlist, view updates).  Times are milliseconds since the epoch, as    *)
(* Date.getTime() gives them; event timestamps are seconds, as Frigate     *)
(* gives them.                                                             *)
(***************************************************************************)
EXTENDS Integers, Sequences, FiniteSets, TLC

VARIABLES
    now,            \* the wall clock, new Date().getTime()
    maxAgeSeconds,  \* TimelineEventManager._maxAgeSeconds
    dateStart,      \* TimelineEventManager._dateStart (Undefined when unset)
    dateEnd,        \* TimelineEventManager._dateEnd
    dateFetch,      \* TimelineEventManager._dateFetch
    dataset,        \* TimelineEventManager._dataset: event id -> item
    cameras,        \* FrigateCardTimelineCore.cameras (the keys of the map)
    timelineConfig, \* FrigateCardTimelineCore.timelineConfig
    view,           \* FrigateCardTimelineCore.view
    timeline,       \* FrigateCardTimelineCore._timeline (the vis.js widget)
    thumbnails,     \* FrigateCardTimelineCore._thumbnails (its children)
    server,         \* the Frigate server: whether event "a" has ended
    calls,          \* the suspended _fetchEvents invocations and their queries
    out,            \* what the last handler did and emitted
    reqMinStart,    \* history: the smallest start _fetchEvents was given
    reqMaxEnd,      \* history: the largest end _fetchEvents was given
    updates,        \* history: how many times updated() ran
    pans,           \* history: how many times the user panned
    probe           \* the arguments and result of a call of a pure function

vars == <<now, maxAgeSeconds, dateStart, dateEnd, dateFetch, dataset, cameras,
          timelineConfig, view, timeline, thumbnails, server, calls, out,
          reqMinStart, reqMaxEnd, updates, pans, probe>>

----------------------------------------------------------------------------
(* Program constants.                                                      *)

TIMELINE_EVENT_MANAGER_MAX_AGE_SECONDS == 10

\* Date.getTime() counts milliseconds; the code multiplies seconds by 1000.
MsPerSecond == 1000

\* date-fns add/sub of { hours: 1 } moves a date by 3 600 000 ms.
one_hour == 3600000

\* An absent value (undefined / null): a Date, a number or an end time.
Undefined == 0 - 1

\* JavaScript truthiness of an optional number: undefined, null and 0 are falsy.
Truthy(x) == x # Undefined /\ x # 0

----------------------------------------------------------------------------
(* Bounds of the model.                                                    *)

\* The clock advances at most this many times.
MaxTicks == 2

\* The host updates properties at most this many times.
MaxUpdates == 3

\* The user pans the widget at most this many times.
MaxPans == 1

\* At most this many _fetchEvents invocations are suspended at once.
MaxCalls == 1

\* The grid of the inputs of the pure hasCoverage check is 0..MaxGrid steps.
MaxGrid == 4

----------------------------------------------------------------------------
(* The data the model runs on.                                             *)

\* One step of the clock: exactly the staleness threshold, so that a fetch is
\* still fresh one step later and stale two steps later.
TickMs == TIMELINE_EVENT_MANAGER_MAX_AGE_SECONDS * MsPerSecond

\* The clock at construction (seconds since the epoch * 1000).
NowStart == 20000 * MsPerSecond

Min(a, b) == IF a < b THEN a ELSE b
Max(a, b) == IF a > b THEN a ELSE b

NoEvent == [id |-> "undefined"]
NoMedia == [media_content_type |-> "undefined"]
NoWindow == <<>>
NoTimeline == [exists |-> FALSE]

\* Event "a": camera cam1, recent, has a clip and a snapshot, still running
\* until the server closes it.
EventA(closed) ==
    [id |-> "a", camera |-> "cam1", label |-> "person",
     start_time |-> 19000, end_time |-> IF closed THEN 19900 ELSE Undefined]

\* Event "b": camera cam2, long finished, has a snapshot only.
EventB ==
    [id |-> "b", camera |-> "cam2", label |-> "person",
     start_time |-> 4000, end_time |-> 4300]

----------------------------------------------------------------------------
(* TimelineEventManager.                                                   *)

\* hasCoverage with the staleness test off by one: a fetch exactly as old as
\* the threshold already counts as stale.
hasCoverageStaleAtThreshold(dS, dE, dF, maxAge, nowv, start, end) ==
    IF dF = Undefined \/ dS = Undefined \/ dE = Undefined THEN FALSE
    ELSE IF maxAge # 0 /\ nowv - dF >= maxAge * MsPerSecond THEN FALSE
    ELSE IF start < dS THEN FALSE
    ELSE IF end = Undefined THEN TRUE
    ELSE IF end < dE THEN TRUE
    ELSE IF maxAge = 0 THEN FALSE
    ELSE IF nowv - end > maxAge * MsPerSecond THEN FALSE
    ELSE end - maxAge * MsPerSecond <= dE

\* hasCoverage(start, end?) as a function of the manager's fields and the
\* clock.  A Date is always truthy, so "!x" tests for undefined only;
\* _maxAgeSeconds is a number, falsy when 0.
hasCoverage(dS, dE, dF, maxAge, nowv, start, end) ==
    IF dF = Undefined \/ dS = Undefined \/ dE = Undefined THEN FALSE
    ELSE IF maxAge # 0 /\ nowv - dF > maxAge * MsPerSecond THEN FALSE
    ELSE IF start < dS THEN FALSE
    ELSE IF end = Undefined THEN TRUE
    ELSE IF end < dE THEN TRUE
    ELSE IF maxAge = 0 THEN FALSE
    ELSE IF nowv - end > maxAge * MsPerSecond THEN FALSE
    ELSE end - maxAge * MsPerSecond <= dE

\* _dateStart overwritten by every fetch instead of widened.
fetchDateStartOverwrite(dS, start) == start

\* _fetchEvents, the widening of _dateStart.
fetchDateStart(dS, start) ==
    IF dS = Undefined \/ (start # Undefined /\ start < dS) THEN start ELSE dS

\* _fetchEvents, the widening of _dateEnd.
fetchDateEnd(dE, end) ==
    IF dE = Undefined \/ (end # Undefined /\ end > dE) THEN end ELSE dE

\* The item _addMediaSource builds for one child of a response: the stored
\* item if the dataset has one for the event, else a new one; then the end
\* and the type from this child's event, then the child as clip or snapshot.
addMediaSourceItem(ds, camera, child) ==
    LET event == child.event
        base == IF event.id \in DOMAIN ds
                THEN ds[event.id]
                ELSE [id |-> event.id, group |-> camera,
                      start |-> event.start_time * MsPerSecond,
                      end |-> Undefined, type |-> "undefined",
                      event |-> event, clip |-> NoMedia, snapshot |-> NoMedia]
        timed == IF Truthy(event.end_time)
                 THEN [base EXCEPT !.end = event.end_time * MsPerSecond,
                                   !.type = "range"]
                 ELSE [base EXCEPT !.type = "point"]
    IN  IF child.media_content_type = "video"
        THEN [timed EXCEPT !.clip = child]
        ELSE IF child.media_content_type = "image"
        THEN [timed EXCEPT !.snapshot = child]
        ELSE timed

\* DataSet.update of one item: the fields the item carries overwrite those of
\* the stored item with the same id; a field it does not carry is kept.
datasetUpdate(ds, item) ==
    IF item.id \in DOMAIN ds
    THEN [ds EXCEPT ![item.id] =
            [id |-> item.id, group |-> item.group, start |-> item.start,
             end |-> IF item.end = Undefined THEN @.end ELSE item.end,
             type |-> item.type, event |-> item.event,
             clip |-> IF item.clip = NoMedia THEN @.clip ELSE item.clip,
             snapshot |-> IF item.snapshot = NoMedia THEN @.snapshot
                          ELSE item.snapshot]]
    ELSE [i \in DOMAIN ds \cup {item.id} |-> IF i = item.id THEN item ELSE ds[i]]

\* The children of a response that _addMediaSource keeps.
addMediaSourceKeeps(child) ==
    /\ child.event # NoEvent
    /\ child.media_content_type \in {"video", "image"}

RECURSIVE addMediaSourceItems(_, _, _)
\* The items _addMediaSource collects: every one is built from the dataset as
\* it is before the update.
addMediaSourceItems(ds, camera, children) ==
    IF children = <<>> THEN <<>>
    ELSE LET rest == addMediaSourceItems(ds, camera, Tail(children))
         IN  IF addMediaSourceKeeps(Head(children))
             THEN <<addMediaSourceItem(ds, camera, Head(children))>> \o rest
             ELSE rest

RECURSIVE datasetUpdateAll(_, _)
datasetUpdateAll(ds, items) ==
    IF items = <<>> THEN ds
    ELSE datasetUpdateAll(datasetUpdate(ds, Head(items)), Tail(items))

\* TimelineEventManager.clear(): the dataset is emptied.
EmptyDataset == [i \in {} |-> NoMedia]

\* _addMediaSource that leaves an event the dataset already holds as it is.
addMediaSourceKeepsStored(ds, camera, children) ==
    LET fresh == SelectSeq(children, LAMBDA c : c.event.id \notin DOMAIN ds)
    IN  datasetUpdateAll(ds, addMediaSourceItems(ds, camera, fresh))

\* _addMediaSource that rebuilds the dataset from the response instead of
\* merging the response into it.
addMediaSourceReplace(ds, camera, children) ==
    datasetUpdateAll(EmptyDataset,
                     addMediaSourceItems(EmptyDataset, camera, children))

\* _addMediaSource(camera, target): the dataset after the call.
addMediaSource(ds, camera, children) ==
    datasetUpdateAll(ds, addMediaSourceItems(ds, camera, children))

----------------------------------------------------------------------------
(* The Frigate server behind BrowseMediaUtil.browseMediaQuery.             *)

ServerEvents(closed) == <<EventB, EventA(closed)>>

\* Whether the server holds media of the kind for the event.
ServerHasMedia(event, mediaType) ==
    \/ mediaType = "snapshots"
    \/ mediaType = "clips" /\ event.id = "a"

RECURSIVE browseMediaChildren(_, _, _, _, _)
browseMediaChildren(events, camera, mediaType, before, after) ==
    IF events = <<>> THEN <<>>
    ELSE LET e == Head(events)
             rest == browseMediaChildren(Tail(events), camera, mediaType,
                                         before, after)
         IN  IF /\ e.camera = camera
                /\ ServerHasMedia(e, mediaType)
                /\ after < e.start_time
                /\ e.start_time < before
             THEN <<[media_content_type |->
                        IF mediaType = "clips" THEN "video" ELSE "image",
                     can_expand |-> FALSE, event |-> e]>> \o rest
             ELSE rest

\* The children of the response to a query: the events of the camera that
\* started in (after, before) and have media of the kind, as they are when
\* the server answers.
browseMediaQuery(closed, camera, mediaType, before, after) ==
    browseMediaChildren(ServerEvents(closed), camera, mediaType, before, after)

\* BrowseMediaUtil.isTrueMedia: a playable entry, not a folder or placeholder.
isTrueMedia(m) == m # NoMedia /\ ~m.can_expand

----------------------------------------------------------------------------
(* FrigateCardTimelineCore: pure parts.                                    *)

\* fromUnixTime(seconds).getTime()
fromUnixTime(seconds) == seconds * MsPerSecond

\* _getStartEndFromEvent without the hour after the event's end.
getStartEndFromEventUnpaddedEnd(event) ==
    LET start == fromUnixTime(event.start_time) - one_hour
        end == IF Truthy(event.end_time)
               THEN fromUnixTime(event.end_time)
               ELSE start + one_hour
    IN  <<start, end>>

\* _getStartEndFromEvent(event): <<start, end>>
getStartEndFromEvent(event) ==
    LET start == fromUnixTime(event.start_time) - one_hour
        end == IF Truthy(event.end_time)
               THEN fromUnixTime(event.end_time) + one_hour
               ELSE start + one_hour
    IN  <<start, end>>

\* _getStartEnd(): <<start, end>>, from the event of the view's target.
getStartEnd(v, nowv) ==
    IF v.target # NoEvent
    THEN getStartEndFromEvent(v.target)
    ELSE <<nowv - one_hour, nowv>>

\* The window _updateTimelineFromView computes: around the focused event
\* (view.media), else what _getStartEnd gives.
updateWindow(v, nowv) ==
    IF v.media # NoEvent THEN getStartEndFromEvent(v.media)
    ELSE getStartEnd(v, nowv)

\* clusterCriteria that keeps only the first item out of the focused event's
\* cluster.
clusterCriteriaFirstOnly(first, second, v) ==
    /\ first.id # ""
    /\ first.id # v.media.id
    /\ second.id # ""
    /\ first.event.label = second.event.label

\* clusterCriteria(first, second) of _getOptions; an empty id is falsy.
clusterCriteria(first, second, v) ==
    /\ first.id # ""
    /\ first.id # v.media.id
    /\ second.id # ""
    /\ second.id # v.media.id
    /\ first.event.label = second.event.label

RECURSIVE orderByStart(_, _)
\* dataset.get({order: 'start'}): the ids, by ascending start.
orderByStart(ds, ids) ==
    IF ids = {} THEN <<>>
    ELSE LET first == CHOOSE i \in ids : \A j \in ids : ds[i].start <= ds[j].start
         IN  <<first>> \o orderByStart(ds, ids \ {first})

\* The loop body of _generateThumbnails without the isTrueMedia tests.
thumbnailOfAnyMedia(item, media) ==
    IF item.clip # NoMedia /\ media \in {"all", "clips"}
    THEN <<item.clip>>
    ELSE IF item.snapshot # NoMedia /\ media \in {"all", "snapshots"}
    THEN <<item.snapshot>>
    ELSE <<>>

\* The media the loop of _generateThumbnails pushes for one item.
thumbnailOf(item, media) ==
    IF item.clip # NoMedia /\ media \in {"all", "clips"} /\ isTrueMedia(item.clip)
    THEN <<item.clip>>
    ELSE IF /\ item.snapshot # NoMedia
            /\ media \in {"all", "snapshots"}
            /\ isTrueMedia(item.snapshot)
    THEN <<item.snapshot>>
    ELSE <<>>

RECURSIVE thumbnailLoop(_, _, _, _, _)
\* The loop of _generateThumbnails: [children, childIndex], childIndex as the
\* code counts it (from 0, -1 when no selected item was added).
thumbnailLoop(ds, order, media, selected, acc) ==
    IF order = <<>> THEN acc
    ELSE LET item == ds[Head(order)]
             add == thumbnailOf(item, media)
             children == acc.children \o add
             childIndex == IF add # <<>> /\ item.event.id \in selected
                           THEN Len(children) - 1
                           ELSE acc.childIndex
         IN  thumbnailLoop(ds, Tail(order), media, selected,
                           [children |-> children, childIndex |-> childIndex])

thumbnailProjection(ds, media, selected) ==
    thumbnailLoop(ds, orderByStart(ds, DOMAIN ds), media, selected,
                  [children |-> <<>>, childIndex |-> 0 - 1])

\* Whether _updateTimelineFromView finds the event outside the widget's window.
eventOutsideWindow(event, tw) ==
    LET eventStart == event.start_time * MsPerSecond
        eventEnd == IF Truthy(event.end_time)
                    THEN event.end_time * MsPerSecond ELSE 0
    IN  \/ eventStart < tw[1]
        \/ eventStart > tw[2]
        \/ (eventEnd # 0 /\ (eventEnd < tw[1] \/ eventEnd > tw[2]))

\* The placement that goes on to the event and live rules when the persisted
\* window is the widget's window already.
placeWindowFallsThrough(context, event, tw, w) ==
    IF context # NoWindow /\ context # tw
    THEN context
    ELSE IF event # NoEvent
    THEN IF eventOutsideWindow(event, tw) THEN w ELSE tw
    ELSE w

\* The placement with the focused event tried before the persisted window.
placeWindowEventFirst(context, event, tw, w) ==
    IF event # NoEvent
    THEN IF eventOutsideWindow(event, tw) THEN w ELSE tw
    ELSE IF context # NoWindow
    THEN IF context # tw THEN context ELSE tw
    ELSE w

\* The window _updateTimelineFromView leaves the widget with: context is
\* view.context.window, tw the widget's window, w the computed window.
placeWindow(context, event, tw, w) ==
    IF context # NoWindow
    THEN IF context # tw THEN context ELSE tw
    ELSE IF event # NoEvent
    THEN IF eventOutsideWindow(event, tw) THEN w ELSE tw
    ELSE w

----------------------------------------------------------------------------
(* The handlers.  A handler is computed on a record m of the fields it may *)
(* change; the actions below assign the variables from the result.         *)

NoThumbnails == [defined |-> FALSE, children |-> <<>>]
NoCall == [kind |-> "none"]
CallIds == 1..MaxCalls

\* What a step records of itself: the handler (op); the result of
\* hasCoverage in fetchEventsIfNecessary (cov) and the range it was asked
\* for (w); the outcome of _generateThumbnails (gen); how far the second
\* half of _updateTimelineFromView got (fin), its focused event (ev) and
\* what it read, the view's context window (ctx) and the widget's window
\* (tw); the invocation whose query settled (call); and the signals emitted
\* to the hosting environment, in order.
BlankOut(op) ==
    [op |-> op, cov |-> "none", w |-> NoWindow, gen |-> "none",
     fin |-> "none", signals |-> <<>>, ev |-> NoEvent, ctx |-> NoWindow,
     tw |-> NoWindow, call |-> 0]

Fields(op) ==
    [dateStart |-> dateStart, dateEnd |-> dateEnd, dateFetch |-> dateFetch,
     dataset |-> dataset, timeline |-> timeline, thumbnails |-> thumbnails,
     calls |-> calls, reqMinStart |-> reqMinStart, reqMaxEnd |-> reqMaxEnd,
     out |-> BlankOut(op)]

Assign(m) ==
    /\ dateStart' = m.dateStart
    /\ dateEnd' = m.dateEnd
    /\ dateFetch' = m.dateFetch
    /\ dataset' = m.dataset
    /\ timeline' = m.timeline
    /\ thumbnails' = m.thumbnails
    /\ calls' = m.calls
    /\ reqMinStart' = m.reqMinStart
    /\ reqMaxEnd' = m.reqMaxEnd
    /\ out' = m.out

Emit(m, sig) == [m EXCEPT !.out.signals = Append(@, sig)]

FreeCalls(cs) == {i \in DOMAIN cs : cs[i] = NoCall}

\* The media kinds _fetchEvents queries for a filter.
mediaTypes(media) == IF media = "all" THEN {"clips", "snapshots"} ELSE {media}

\* _generateThumbnails that adopts and dispatches what it built without
\* comparing it with the playlist it holds.
generateThumbnailsUncompared(m, cfg) ==
    IF ~m.timeline.exists THEN [m EXCEPT !.out.gen = "nowidget"]
    ELSE LET p == thumbnailProjection(m.dataset, cfg.media, m.timeline.selection)
             target == [defined |-> TRUE, children |-> p.children]
         IN  IF p.children = <<>> THEN [m EXCEPT !.out.gen = "empty"]
             ELSE Emit([m EXCEPT !.thumbnails = target, !.out.gen = "adopted"],
                       [sig |-> "thumbnails", children |-> p.children,
                        childIndex |-> IF p.childIndex < 0 THEN Undefined
                                       ELSE p.childIndex])

\* _generateThumbnails()
generateThumbnails(m, cfg) ==
    IF ~m.timeline.exists THEN [m EXCEPT !.out.gen = "nowidget"]
    ELSE LET p == thumbnailProjection(m.dataset, cfg.media, m.timeline.selection)
             target == [defined |-> TRUE, children |-> p.children]
         IN  IF p.children = <<>> THEN [m EXCEPT !.out.gen = "empty"]
             ELSE IF target # m.thumbnails
             THEN Emit([m EXCEPT !.thumbnails = target, !.out.gen = "adopted"],
                       [sig |-> "thumbnails", children |-> p.children,
                        childIndex |-> IF p.childIndex < 0 THEN Undefined
                                       ELSE p.childIndex])
             ELSE [m EXCEPT !.out.gen = "same"]

\* _fetchEvents that queries the range it was asked for, not the widened one.
fetchEventsRequestedRange(m, kind, event, w, cams, cfg, nowv, closed) ==
    LET dS == fetchDateStart(m.dateStart, w[1])
        dE == fetchDateEnd(m.dateEnd, w[2])
        queries == {[camera |-> c, mediaType |-> t,
                     before |-> w[2] \div MsPerSecond, after |-> w[1] \div MsPerSecond,
                     children |-> browseMediaQuery(closed, c, t,
                                      w[2] \div MsPerSecond, w[1] \div MsPerSecond)]
                    : c \in cams, t \in mediaTypes(cfg.media)}
        slot == CHOOSE i \in FreeCalls(m.calls) :
                    \A j \in FreeCalls(m.calls) : i <= j
    IN  [m EXCEPT !.dateStart = dS, !.dateEnd = dE, !.dateFetch = nowv,
                  !.reqMinStart = IF @ = Undefined THEN w[1] ELSE Min(@, w[1]),
                  !.reqMaxEnd = IF @ = Undefined THEN w[2] ELSE Max(@, w[2]),
                  !.calls[slot] = [kind |-> kind, event |-> event, w |-> w,
                                   pending |-> queries]]

\* _fetchEvents up to its await: the window is widened, the fetch is stamped
\* and one query per camera and media kind is issued for the widened range;
\* the invocation is then suspended with the caller's continuation.  (Both
\* callers pass a start and an end, so neither bound stays unknown.)
fetchEvents(m, kind, event, w, cams, cfg, nowv, closed) ==
    LET dS == fetchDateStart(m.dateStart, w[1])
        dE == fetchDateEnd(m.dateEnd, w[2])
        queries == {[camera |-> c, mediaType |-> t,
                     before |-> dE \div MsPerSecond, after |-> dS \div MsPerSecond,
                     children |-> browseMediaQuery(closed, c, t,
                                      dE \div MsPerSecond, dS \div MsPerSecond)]
                    : c \in cams, t \in mediaTypes(cfg.media)}
        slot == CHOOSE i \in FreeCalls(m.calls) :
                    \A j \in FreeCalls(m.calls) : i <= j
    IN  [m EXCEPT !.dateStart = dS, !.dateEnd = dE, !.dateFetch = nowv,
                  !.reqMinStart = IF @ = Undefined THEN w[1] ELSE Min(@, w[1]),
                  !.reqMaxEnd = IF @ = Undefined THEN w[2] ELSE Max(@, w[2]),
                  !.calls[slot] = [kind |-> kind, event |-> event, w |-> w,
                                   pending |-> queries]]

\* _updateTimelineFromView after its await: thumbnails if a fetch was made,
\* the selection, then the window.  this._timeline is read again here and
\* may have been destroyed while the fetch was awaited: setSelection on
\* undefined throws a TypeError.
updateResume(m, event, w, fetched, v, cfg) ==
    LET g == IF fetched THEN generateThumbnails(m, cfg) ELSE m
        r == [g EXCEPT !.out.ev = event, !.out.w = w]
    IN  IF ~r.timeline.exists
        THEN Emit([r EXCEPT !.out.fin = "threw"], [sig |-> "TypeError"])
        ELSE [r EXCEPT
                !.out.fin = "placed",
                !.out.ctx = v.context,
                !.out.tw = r.timeline.window,
                !.timeline.selection =
                    IF event # NoEvent THEN {event.id} ELSE {},
                !.timeline.window =
                    placeWindow(v.context, event, r.timeline.window, w)]

\* fetchEventsIfNecessary as _updateTimelineFromView calls it, with what
\* follows: the rest of the update at once when the range is covered, a
\* suspended fetch otherwise.
updateTimelineFromView(m, v, cams, cfg, nowv, maxAge, closed) ==
    IF ~m.timeline.exists THEN m
    ELSE LET event == v.media
             w == updateWindow(v, nowv)
             q == [m EXCEPT !.out.w = w]
         IN  IF hasCoverage(m.dateStart, m.dateEnd, m.dateFetch, maxAge, nowv,
                            w[1], w[2])
             THEN updateResume([q EXCEPT !.out.cov = "yes"], event, w, FALSE,
                               v, cfg)
             ELSE fetchEvents([q EXCEPT !.out.cov = "no"], "update", event, w,
                              cams, cfg, nowv, closed)

\* updated() that also drops the suspended fetches when the cameras change.
updatedHandlerCancelsFetches(m, changed, v, cams, cfg, nowv, maxAge, closed) ==
    LET cleared == IF "cameras" \in changed
                   THEN [m EXCEPT !.dataset = EmptyDataset,
                                  !.timeline = NoTimeline,
                                  !.calls = [i \in CallIds |-> NoCall]]
                   ELSE m
        options == getStartEnd(v, nowv)
        created == IF "timelineConfig" \in changed /\ ~cleared.timeline.exists
                   THEN [cleared EXCEPT !.timeline =
                            [exists |-> TRUE, window |-> options,
                             selection |-> {}]]
                   ELSE cleared
    IN  IF "view" \in changed
        THEN updateTimelineFromView(created, v, cams, cfg, nowv, maxAge, closed)
        ELSE created

\* updated(changedProperties), the properties already holding their new
\* values v, cams, cfg.
updatedHandler(m, changed, v, cams, cfg, nowv, maxAge, closed) ==
    LET cleared == IF "cameras" \in changed
                   THEN [m EXCEPT !.dataset = EmptyDataset,
                                  !.timeline = NoTimeline]
                   ELSE m
        options == getStartEnd(v, nowv)
        created == IF "timelineConfig" \in changed /\ ~cleared.timeline.exists
                   THEN [cleared EXCEPT !.timeline =
                            [exists |-> TRUE, window |-> options,
                             selection |-> {}]]
                   ELSE cleared
    IN  IF "view" \in changed
        THEN updateTimelineFromView(created, v, cams, cfg, nowv, maxAge, closed)
        ELSE created

\* _timelineRangeHandler that does not look at byUser.
timelineRangeHandlerAnyOrigin(m, byUser, w, cams, cfg, nowv, maxAge, closed) ==
    LET q == [m EXCEPT !.timeline.window = w, !.out.w = w]
        f == IF hasCoverage(m.dateStart, m.dateEnd, m.dateFetch, maxAge, nowv,
                            w[1], w[2])
             THEN [q EXCEPT !.out.cov = "yes"]
             ELSE IF FreeCalls(m.calls) = {} THEN q
             ELSE fetchEvents([q EXCEPT !.out.cov = "no"], "range", NoEvent, w,
                              cams, cfg, nowv, closed)
    IN  Emit(f, [sig |-> "context", window |-> f.timeline.window])

\* _timelineRangeHandler({start, end, byUser}): the widget already shows the
\* window w = <<start, end>>; a change that is not the user's is ignored.
timelineRangeHandler(m, byUser, w, cams, cfg, nowv, maxAge, closed) ==
    IF ~byUser \/ ~m.timeline.exists THEN m
    ELSE
    LET q == [m EXCEPT !.timeline.window = w, !.out.w = w]
        f == IF hasCoverage(m.dateStart, m.dateEnd, m.dateFetch, maxAge, nowv,
                            w[1], w[2])
             THEN [q EXCEPT !.out.cov = "yes"]
             ELSE fetchEvents([q EXCEPT !.out.cov = "no"], "range", NoEvent, w,
                              cams, cfg, nowv, closed)
    IN  Emit(f, [sig |-> "context", window |-> f.timeline.window])

\* fetchCameraEvents whose failure takes the fetch stamp back.
fetchCameraEventsSettledRollsBack(m, q, ok) ==
    IF ok
    THEN [m EXCEPT !.dataset = addMediaSource(@, q.camera, q.children)]
    ELSE Emit([m EXCEPT !.dateFetch = Undefined], [sig |-> "error"])

\* fetchCameraEvents with a failure that is swallowed: nothing is reported.
fetchCameraEventsSettledSilent(m, q, ok) ==
    IF ok
    THEN [m EXCEPT !.dataset = addMediaSource(@, q.camera, q.children)]
    ELSE m

\* One query settles, the rest of fetchCameraEvents: its response is merged,
\* or its failure is caught and reported.
fetchCameraEventsSettled(m, q, ok) ==
    IF ok
    THEN [m EXCEPT !.dataset = addMediaSource(@, q.camera, q.children)]
    ELSE Emit(m, [sig |-> "error"])

\* Promise.all of the suspended invocation i after its query q has settled:
\* when it was the last one, the invocation returns and its caller
\* continues as after a fetch.
promiseAllSettled(m, i, q, v, cfg) ==
    LET c == m.calls[i]
        left == c.pending \ {q}
    IN  IF left # {}
        THEN [m EXCEPT !.calls[i].pending = left, !.out.call = i]
        ELSE LET done == [m EXCEPT !.calls[i] = NoCall, !.out.call = i]
             IN  IF c.kind = "update"
                 THEN updateResume(done, c.event, c.w, TRUE, v, cfg)
                 ELSE generateThumbnails(done, cfg)

----------------------------------------------------------------------------
(* The inputs of the hosting environment.                                  *)

CameraSets == {{"cam1"}, {"cam2"}}

MediaFilters == {"all", "clips", "snapshots"}

\* The window the user pans to: around event "b".
UserWindows == {<<3000 * MsPerSecond, 5000 * MsPerSecond>>}

\* The views the host sets: the live view and the view of event "b", each
\* with or without a persisted window, and the view of event "a"; the target
\* is a playlist or a folder and carries no event of its own.
Views(closed) ==
    [media : {NoEvent, EventB}, target : {NoEvent},
     context : {NoWindow} \cup UserWindows]
    \cup {[media |-> EventA(closed), target |-> NoEvent, context |-> NoWindow]}

\* The sets of changed properties updated() is called with: all of them on
\* the first update, one property at a time afterwards.
ChangedProperties(first) ==
    IF first THEN {{"cameras", "timelineConfig", "view"}}
    ELSE {{"cameras"}, {"timelineConfig"}, {"view"}}

NoProbe == [op |-> "none"]

----------------------------------------------------------------------------
(* The element and its manager.                                            *)

Init ==
    /\ now = NowStart
    /\ maxAgeSeconds = TIMELINE_EVENT_MANAGER_MAX_AGE_SECONDS
    /\ dateStart = Undefined
    /\ dateEnd = Undefined
    /\ dateFetch = Undefined
    /\ dataset = EmptyDataset
    /\ cameras = {"cam1"}
    /\ timelineConfig = [media |-> "all"]
    /\ view = [media |-> NoEvent, target |-> NoEvent, context |-> NoWindow]
    /\ timeline = NoTimeline
    /\ thumbnails = NoThumbnails
    /\ server = FALSE
    /\ calls = [i \in CallIds |-> NoCall]
    /\ out = BlankOut("init")
    /\ reqMinStart = Undefined
    /\ reqMaxEnd = Undefined
    /\ updates = 0
    /\ pans = 0
    /\ probe = NoProbe

\* Time passes.
Tick ==
    /\ now < NowStart + MaxTicks * TickMs
    /\ now' = now + TickMs
    /\ out' = BlankOut("idle")
    /\ UNCHANGED <<maxAgeSeconds, dateStart, dateEnd, dateFetch, dataset,
                   cameras, timelineConfig, view, timeline, thumbnails,
                   server, calls, reqMinStart, reqMaxEnd, updates, pans, probe>>

\* The running event "a" ends on the server.
EventEnds ==
    /\ ~server
    /\ server' = TRUE
    /\ out' = BlankOut("idle")
    /\ UNCHANGED <<now, maxAgeSeconds, dateStart, dateEnd, dateFetch, dataset,
                   cameras, timelineConfig, view, timeline, thumbnails,
                   calls, reqMinStart, reqMaxEnd, updates, pans, probe>>

\* The host sets properties and Lit calls updated(changedProperties).
Updated ==
    \E changed \in ChangedProperties(updates = 0) :
    \E cams \in CameraSets, media \in MediaFilters, v \in Views(server) :
        /\ updates < MaxUpdates
        \* The first update comes with the initial configuration and a view
        \* that has no persisted window yet.
        /\ updates = 0 => media = timelineConfig.media /\ v.context = NoWindow
        /\ updates' = updates + 1
        \* A view update that has to fetch needs room among the suspended
        \* invocations the model keeps.
        /\ "view" \in changed =>
              \/ FreeCalls(calls) # {}
              \/ hasCoverage(dateStart, dateEnd, dateFetch, maxAgeSeconds, now,
                             updateWindow(v, now)[1], updateWindow(v, now)[2])
        /\ "cameras" \notin changed => cams = cameras
        /\ "timelineConfig" \notin changed => media = timelineConfig.media
        /\ "view" \notin changed => v = view
        /\ cameras' = cams
        /\ timelineConfig' = [media |-> media]
        /\ view' = v
        /\ Assign(updatedHandler(Fields("updated"), changed, v, cams,
                                 [media |-> media], now, maxAgeSeconds, server))
        /\ UNCHANGED <<now, maxAgeSeconds, server, pans, probe>>

\* The user pans or zooms the widget: 'rangechanged' with byUser set.
UserRangeChanged ==
    \E w \in UserWindows :
        /\ timeline.exists
        /\ pans < MaxPans
        /\ pans' = pans + 1
        /\ FreeCalls(calls) # {}
        /\ Assign(timelineRangeHandler(Fields("range"), TRUE, w, cameras,
                                       timelineConfig, now, maxAgeSeconds,
                                       server))
        /\ UNCHANGED <<now, maxAgeSeconds, cameras, timelineConfig, view,
                       server, updates, probe>>

\* The widget reports a range change that is not the user's (it follows a
\* setWindow of the element): 'rangechanged' with byUser unset and the
\* window the widget shows.
ProgrammaticRangeChanged ==
    /\ timeline.exists
    /\ Assign(timelineRangeHandler(Fields("setWindow"), FALSE, timeline.window,
                                   cameras, timelineConfig, now, maxAgeSeconds,
                                   server))
    /\ UNCHANGED <<now, maxAgeSeconds, cameras, timelineConfig, view, server,
                   updates, pans, probe>>

\* A query is answered.
QueryResolves ==
    \E i \in DOMAIN calls :
        /\ calls[i] # NoCall
        /\ \E q \in calls[i].pending :
            \E settled \in {fetchCameraEventsSettled(Fields("resolve"), q, TRUE)} :
                \E resumed \in {promiseAllSettled(settled, i, q, view,
                                                   timelineConfig)} :
                    Assign(resumed)
        /\ UNCHANGED <<now, maxAgeSeconds, cameras, timelineConfig, view,
                       server, updates, pans, probe>>

\* A query fails.
QueryRejects ==
    \E i \in DOMAIN calls :
        /\ calls[i] # NoCall
        /\ \E q \in calls[i].pending :
            \E settled \in {fetchCameraEventsSettled(Fields("reject"), q, FALSE)} :
                \E resumed \in {promiseAllSettled(settled, i, q, view,
                                                   timelineConfig)} :
                    Assign(resumed)
        /\ UNCHANGED <<now, maxAgeSeconds, cameras, timelineConfig, view,
                       server, updates, pans, probe>>

Next ==
    \/ Tick
    \/ EventEnds
    \/ Updated
    \/ UserRangeChanged
    \/ ProgrammaticRangeChanged
    \/ QueryResolves
    \/ QueryRejects

Spec == Init /\ [][Next]_vars

\* The element within one staleness period (the clock does not advance and
\* no event ends), under the assumption that every query that is awaited is
\* eventually answered or fails.
NextSettle ==
    \/ Updated
    \/ UserRangeChanged
    \/ ProgrammaticRangeChanged
    \/ QueryResolves
    \/ QueryRejects

SpecSettle ==
    Init /\ [][NextSettle]_vars /\ WF_vars(QueryResolves \/ QueryRejects)

----------------------------------------------------------------------------
(* hasCoverage on its own: the manager's fields and the clock are drawn    *)
(* from a grid around the staleness threshold, and hasCoverage is called   *)
(* with every start and optional end of the grid.                          *)

\* Half the staleness threshold.
GridMs == (TIMELINE_EVENT_MANAGER_MAX_AGE_SECONDS * MsPerSecond) \div 2

Grid == {k * GridMs : k \in 0..MaxGrid}

\* _maxAgeSeconds as the code sets it, and 0 (no threshold), which the code
\* tests for.
Thresholds == {0, TIMELINE_EVENT_MANAGER_MAX_AGE_SECONDS}

InitCoverage ==
    /\ now \in Grid
    /\ maxAgeSeconds \in Thresholds
    /\ \/ dateStart = Undefined /\ dateEnd = Undefined /\ dateFetch = Undefined
       \/ /\ dateStart \in Grid
          /\ dateEnd \in Grid
          /\ dateFetch \in Grid
          /\ dateStart <= dateEnd
          /\ dateFetch <= now
    /\ dataset = EmptyDataset
    /\ cameras = {"cam1"}
    /\ timelineConfig = [media |-> "all"]
    /\ view = [media |-> NoEvent, target |-> NoEvent, context |-> NoWindow]
    /\ timeline = NoTimeline
    /\ thumbnails = NoThumbnails
    /\ server = FALSE
    /\ calls = [i \in CallIds |-> NoCall]
    /\ out = BlankOut("init")
    /\ reqMinStart = dateStart
    /\ reqMaxEnd = dateEnd
    /\ updates = 0
    /\ pans = 0
    /\ probe = NoProbe

CallHasCoverage ==
    \E start \in Grid, end \in Grid \cup {Undefined} :
        /\ probe' = [op |-> "hasCoverage", start |-> start, end |-> end,
                     result |-> hasCoverage(dateStart, dateEnd, dateFetch,
                                            maxAgeSeconds, now, start, end)]
        /\ UNCHANGED <<now, maxAgeSeconds, dateStart, dateEnd, dateFetch,
                       dataset, cameras, timelineConfig, view, timeline,
                       thumbnails, server, calls, out, reqMinStart, reqMaxEnd,
                       updates, pans>>

NextCoverage == CallHasCoverage

SpecCoverage == InitCoverage /\ [][NextCoverage]_vars

----------------------------------------------------------------------------
(* The window computations on their own: every view over the events        *)
(* below, at every clock value.                                            *)

\* Events with and without an end: "a" while running and once ended, "b",
\* and an event that lasted 300 s.
WindowEvents ==
    {EventA(FALSE), EventA(TRUE), EventB,
     [id |-> "c", camera |-> "cam1", label |-> "car",
      start_time |-> 19000, end_time |-> 19300]}

Clock == {NowStart + k * TickMs : k \in 0..MaxTicks}

InitWindow ==
    /\ now \in Clock
    /\ view \in [media : WindowEvents \cup {NoEvent},
                 target : WindowEvents \cup {NoEvent},
                 context : {NoWindow}]
    /\ maxAgeSeconds = TIMELINE_EVENT_MANAGER_MAX_AGE_SECONDS
    /\ dateStart = Undefined
    /\ dateEnd = Undefined
    /\ dateFetch = Undefined
    /\ dataset = EmptyDataset
    /\ cameras = {"cam1"}
    /\ timelineConfig = [media |-> "all"]
    /\ timeline = NoTimeline
    /\ thumbnails = NoThumbnails
    /\ server = FALSE
    /\ calls = [i \in CallIds |-> NoCall]
    /\ out = BlankOut("init")
    /\ reqMinStart = Undefined
    /\ reqMaxEnd = Undefined
    /\ updates = 0
    /\ pans = 0
    /\ probe = NoProbe

UnchangedButProbe ==
    UNCHANGED <<now, maxAgeSeconds, dateStart, dateEnd, dateFetch, dataset,
                cameras, timelineConfig, view, timeline, thumbnails, server,
                calls, out, reqMinStart, reqMaxEnd, updates, pans>>

CallGetStartEndFromEvent ==
    \E event \in WindowEvents :
        /\ probe' = [op |-> "getStartEndFromEvent", event |-> event,
                     result |-> getStartEndFromEvent(event)]
        /\ UnchangedButProbe

CallGetStartEnd ==
    /\ probe' = [op |-> "getStartEnd", event |-> view.target,
                 result |-> getStartEnd(view, now)]
    /\ UnchangedButProbe

CallUpdateWindow ==
    /\ probe' = [op |-> "updateWindow",
                 event |-> IF view.media # NoEvent THEN view.media
                           ELSE view.target,
                 result |-> updateWindow(view, now)]
    /\ UnchangedButProbe

NextWindow ==
    \/ CallGetStartEndFromEvent
    \/ CallGetStartEnd
    \/ CallUpdateWindow

SpecWindow == InitWindow /\ [][NextWindow]_vars

----------------------------------------------------------------------------
(* clusterCriteria on its own: every pair of items under every focus.      *)

ClusterItems ==
    {[id |-> i, event |-> [id |-> i, label |-> l]] :
        i \in {"", "a", "b", "c"}, l \in {"person", "car"}}

InitCluster ==
    /\ view \in [media : {NoEvent, EventA(FALSE), EventA(TRUE), EventB},
                 target : {NoEvent}, context : {NoWindow}]
    /\ now = NowStart
    /\ maxAgeSeconds = TIMELINE_EVENT_MANAGER_MAX_AGE_SECONDS
    /\ dateStart = Undefined
    /\ dateEnd = Undefined
    /\ dateFetch = Undefined
    /\ dataset = EmptyDataset
    /\ cameras = {"cam1"}
    /\ timelineConfig = [media |-> "all"]
    /\ timeline = NoTimeline
    /\ thumbnails = NoThumbnails
    /\ server = FALSE
    /\ calls = [i \in CallIds |-> NoCall]
    /\ out = BlankOut("init")
    /\ reqMinStart = Undefined
    /\ reqMaxEnd = Undefined
    /\ updates = 0
    /\ pans = 0
    /\ probe = NoProbe

CallClusterCriteria ==
    \E first \in ClusterItems, second \in ClusterItems :
        /\ probe' = [op |-> "clusterCriteria", first |-> first,
                     second |-> second,
                     result |-> clusterCriteria(first, second, view)]
        /\ UnchangedButProbe

NextCluster == CallClusterCriteria

SpecCluster == InitCluster /\ [][NextCluster]_vars

----------------------------------------------------------------------------
(* The thumbnail projection on its own: every dataset of up to two items,  *)
(* each with or without a clip and a snapshot, playable or a placeholder,  *)
(* under every filter and selection.                                       *)

\* A child of a response as _addMediaSource stores it: kind is "video" or
\* "image"; a placeholder (folder) has can_expand set.
ThumbMedia(event, kind, placeholder) ==
    [media_content_type |-> kind, can_expand |-> placeholder, event |-> event]

\* The items _addMediaSource can have stored for an event.
ThumbItems(event) ==
    {[id |-> event.id, group |-> event.camera,
      start |-> event.start_time * MsPerSecond,
      end |-> IF Truthy(event.end_time) THEN event.end_time * MsPerSecond
              ELSE Undefined,
      type |-> IF Truthy(event.end_time) THEN "range" ELSE "point",
      event |-> event, clip |-> c, snapshot |-> sn] :
        c \in {NoMedia, ThumbMedia(event, "video", FALSE),
                ThumbMedia(event, "video", TRUE)},
        sn \in {NoMedia, ThumbMedia(event, "image", FALSE),
                 ThumbMedia(event, "image", TRUE)}}

ThumbEvents == {EventA(FALSE), EventB}

ThumbDatasets ==
    UNION {{f \in [{e.id : e \in E} -> UNION {ThumbItems(e) : e \in E}] :
              \A i \in DOMAIN f : f[i].id = i} : E \in SUBSET ThumbEvents}

InitThumbs ==
    /\ dataset \in ThumbDatasets
    /\ timelineConfig \in [media : MediaFilters]
    /\ timeline \in [exists : {TRUE}, window : UserWindows,
                      selection : SUBSET {e.id : e \in ThumbEvents}]
    /\ now = NowStart
    /\ maxAgeSeconds = TIMELINE_EVENT_MANAGER_MAX_AGE_SECONDS
    /\ dateStart = Undefined
    /\ dateEnd = Undefined
    /\ dateFetch = Undefined
    /\ cameras = {"cam1"}
    /\ view = [media |-> NoEvent, target |-> NoEvent, context |-> NoWindow]
    /\ thumbnails = NoThumbnails
    /\ server = FALSE
    /\ calls = [i \in CallIds |-> NoCall]
    /\ out = BlankOut("init")
    /\ reqMinStart = Undefined
    /\ reqMaxEnd = Undefined
    /\ updates = 0
    /\ pans = 0
    /\ probe = NoProbe

CallThumbnailProjection ==
    /\ probe.op = "none"
    /\ probe' = [op |-> "thumbnailProjection",
                 result |-> thumbnailProjection(dataset, timelineConfig.media,
                                                timeline.selection)]
    /\ UnchangedButProbe

NextThumbs == CallThumbnailProjection

SpecThumbs == InitThumbs /\ [][NextThumbs]_vars

----------------------------------------------------------------------------
(* _generateThumbnails run again and again over a dataset that stays as it  *)
(* is, while the selection of the widget and the media filter change.  The  *)
(* probe counts the regenerations and, since the filter last changed, the   *)
(* dispatches.                                                              *)

MaxRegenerations == 3
MaxFilterChanges == 1

InitRegen ==
    /\ dataset \in ThumbDatasets
    /\ timelineConfig \in [media : MediaFilters]
    /\ timeline \in [exists : {TRUE}, window : UserWindows,
                      selection : SUBSET {e.id : e \in ThumbEvents}]
    /\ now = NowStart
    /\ maxAgeSeconds = TIMELINE_EVENT_MANAGER_MAX_AGE_SECONDS
    /\ dateStart = Undefined
    /\ dateEnd = Undefined
    /\ dateFetch = Undefined
    /\ cameras = {"cam1"}
    /\ view = [media |-> NoEvent, target |-> NoEvent, context |-> NoWindow]
    /\ thumbnails = NoThumbnails
    /\ server = FALSE
    /\ calls = [i \in CallIds |-> NoCall]
    /\ out = BlankOut("init")
    /\ reqMinStart = Undefined
    /\ reqMaxEnd = Undefined
    /\ updates = 0
    /\ pans = 0
    /\ probe = [op |-> "generateThumbnails", regenerations |-> 0,
                dispatches |-> 0, filters |-> 0]

\* _generateThumbnails(), as the continuations of the fetches call it.
Regenerate ==
    /\ probe.regenerations < MaxRegenerations
    /\ \E g \in {generateThumbnails(Fields("generateThumbnails"), timelineConfig)} :
          /\ Assign(g)
          /\ probe' = [probe EXCEPT
                 !.regenerations = @ + 1,
                 !.dispatches = @ + Len(SelectSeq(g.out.signals,
                                    LAMBDA x : x.sig = "thumbnails"))]
    /\ UNCHANGED <<now, maxAgeSeconds, cameras, timelineConfig, view, server,
                   updates, pans>>

\* The user selects other items of the widget.
SelectionChanged ==
    /\ \E sel \in SUBSET {e.id : e \in ThumbEvents} :
          /\ sel # timeline.selection
          /\ timeline' = [timeline EXCEPT !.selection = sel]
    /\ UNCHANGED <<now, maxAgeSeconds, dateStart, dateEnd, dateFetch, dataset,
                   cameras, timelineConfig, view, thumbnails, server, calls,
                   out, reqMinStart, reqMaxEnd, updates, pans, probe>>

\* The host sets another media filter.
FilterChanged ==
    /\ probe.filters < MaxFilterChanges
    /\ \E f \in MediaFilters :
          /\ f # timelineConfig.media
          /\ timelineConfig' = [media |-> f]
    /\ probe' = [probe EXCEPT !.filters = @ + 1, !.dispatches = 0]
    /\ UNCHANGED <<now, maxAgeSeconds, dateStart, dateEnd, dateFetch, dataset,
                   cameras, view, timeline, thumbnails, server, calls, out,
                   reqMinStart, reqMaxEnd, updates, pans>>

NextRegen == Regenerate \/ SelectionChanged \/ FilterChanged

SpecRegen == InitRegen /\ [][NextRegen]_vars

----------------------------------------------------------------------------
(* The element with room for two suspended fetches, over a server whose     *)
(* events stay as they are, cameras and media filter as first configured,  *)
(* and every query answered.                                                *)

MaxOverlap == 2

InitOverlap ==
    /\ now = NowStart
    /\ maxAgeSeconds = TIMELINE_EVENT_MANAGER_MAX_AGE_SECONDS
    /\ dateStart = Undefined
    /\ dateEnd = Undefined
    /\ dateFetch = Undefined
    /\ dataset = EmptyDataset
    /\ cameras = {"cam1"}
    /\ timelineConfig \in [media : MediaFilters]
    /\ view = [media |-> NoEvent, target |-> NoEvent, context |-> NoWindow]
    /\ timeline = NoTimeline
    /\ thumbnails = NoThumbnails
    /\ server \in BOOLEAN
    /\ calls = [i \in 1..MaxOverlap |-> NoCall]
    /\ out = BlankOut("init")
    /\ reqMinStart = Undefined
    /\ reqMaxEnd = Undefined
    /\ updates = 0
    /\ pans = 0
    /\ probe = NoProbe

\* updated(): the first one configures the element; the later ones leave
\* cameras and filter as they are and do not clear the dataset.
UpdatedSameSource ==
    /\ Updated
    /\ updates > 0 =>
          /\ cameras' = cameras
          /\ timelineConfig' = timelineConfig
          /\ timeline'.exists

NextOverlap ==
    \/ Tick
    \/ UpdatedSameSource
    \/ UserRangeChanged
    \/ QueryResolves

SpecOverlap == InitOverlap /\ [][NextOverlap]_vars

----------------------------------------------------------------------------
(* _addMediaSource on its own: responses for the full range are merged     *)
(* into the dataset one after the other, in any order; a response shows    *)
(* the event "a" as it was when the server answered, running or ended.     *)

MaxMerges == 4

InitMerge ==
    /\ now = NowStart
    /\ maxAgeSeconds = TIMELINE_EVENT_MANAGER_MAX_AGE_SECONDS
    /\ dateStart = Undefined
    /\ dateEnd = Undefined
    /\ dateFetch = Undefined
    /\ dataset = EmptyDataset
    /\ cameras = {"cam1"}
    /\ timelineConfig = [media |-> "all"]
    /\ view = [media |-> NoEvent, target |-> NoEvent, context |-> NoWindow]
    /\ timeline = NoTimeline
    /\ thumbnails = NoThumbnails
    /\ server = FALSE
    /\ calls = [i \in CallIds |-> NoCall]
    /\ out = BlankOut("init")
    /\ reqMinStart = Undefined
    /\ reqMaxEnd = Undefined
    /\ updates = 0
    /\ pans = 0
    /\ probe = [op |-> "addMediaSource", merges |-> 0, closed |-> FALSE]

\* The response to one query arrives and _addMediaSource merges it.  The
\* probe keeps whether the response showed event "a" ended.
MergeResponse ==
    /\ probe.merges < MaxMerges
    /\ \E cam \in CameraSets, t \in {"clips", "snapshots"}, closed \in BOOLEAN :
          /\ dataset' = addMediaSource(dataset, CHOOSE c \in cam : TRUE,
                            browseMediaQuery(closed, CHOOSE c \in cam : TRUE, t,
                                             NowStart \div MsPerSecond, 0))
          /\ probe' = [probe EXCEPT !.merges = @ + 1, !.closed = closed]
    /\ UNCHANGED <<now, maxAgeSeconds, dateStart, dateEnd, dateFetch, cameras,
                   timelineConfig, view, timeline, thumbnails, server, calls,
                   out, reqMinStart, reqMaxEnd, updates, pans>>

NextMerge == MergeResponse

SpecMerge == InitMerge /\ [][NextMerge]_vars

----------------------------------------------------------------------------
(* The properties.                                                         *)

\* Whether the last fetch is no older than the staleness threshold.
Fresh == now - dateFetch <= maxAgeSeconds * MsPerSecond

\* C1: once a fetch has set the coverage window, and while the fetch is no
\* older than the staleness threshold, hasCoverage is true of every range
\* inside the window, its endpoints included, however old the range's end is.
C1_FetchedRangeCovered ==
    (dateStart # Undefined /\ Fresh) =>
        \A s \in {dateStart, dateEnd}, e \in {dateStart, dateEnd} :
            s <= e => hasCoverage(dateStart, dateEnd, dateFetch,
                                  maxAgeSeconds, now, s, e)

\* The ordered decision list of the specification (4.1, rules 1 to 8), th the
\* staleness threshold in seconds, 0 when none is configured.
CoverageRules(dS, dE, dF, th, nowv, start, end) ==
    IF dS = Undefined \/ dE = Undefined \/ dF = Undefined THEN FALSE  \* 1
    ELSE IF th > 0 /\ dF < nowv - th * 1000 THEN FALSE                \* 2
    ELSE IF start < dS THEN FALSE                                     \* 3
    ELSE IF end = Undefined THEN TRUE                                 \* 4
    ELSE IF end < dE THEN TRUE                                        \* 5
    ELSE IF th = 0 THEN FALSE                                         \* 6
    ELSE IF end < nowv - th * 1000 THEN FALSE                         \* 7
    ELSE end - th * 1000 <= dE                                        \* 8

\* C2: hasCoverage returns what the ordered 8-rule list gives: false when
\* nothing was fetched, false when the fetch is older than the threshold
\* (whatever the range), false when start is before dateStart (however fresh
\* the fetch), true for an end strictly before dateEnd with a start not
\* before dateStart while the fetch is fresh; and the 10:00:12 / 10:00:20
\* scenario of the specification (times in ms of the day).
C2_HasCoverageDecision ==
    /\ probe.op = "hasCoverage" =>
        /\ probe.result = CoverageRules(dateStart, dateEnd, dateFetch,
                                        maxAgeSeconds, now, probe.start,
                                        probe.end)
        /\ dateFetch = Undefined => ~probe.result
        /\ (maxAgeSeconds > 0 /\ ~Fresh) => ~probe.result
        /\ (dateStart # Undefined /\ probe.start < dateStart) => ~probe.result
        /\ ( /\ dateStart # Undefined
             /\ Fresh
             /\ probe.start >= dateStart
             /\ probe.end # Undefined
             /\ probe.end < dateEnd ) => probe.result
    /\ hasCoverage(36000000, 39600000, 36005000, 10, 36012000,
                   36900000, 38700000)
    /\ ~hasCoverage(36000000, 39600000, 36005000, 10, 36020000,
                    36900000, 38700000)

\* A fetch exactly as old as the threshold still covers a range that ends
\* before dateEnd.
C2_Witness ==
    /\ probe.op = "hasCoverage"
    /\ probe.result
    /\ probe.end # Undefined
    /\ probe.end < dateEnd
    /\ maxAgeSeconds > 0
    /\ now - dateFetch = maxAgeSeconds * MsPerSecond

\* C3: the stored earliest date is the minimum of all starts, and the stored
\* latest date the maximum of all ends, that _fetchEvents was given; and
\* dateStart never moves later, dateEnd never earlier.
C3_MonotonicWidening ==
    /\ [](dateStart = reqMinStart /\ dateEnd = reqMaxEnd)
    /\ [][dateStart # Undefined =>
            /\ dateStart' # Undefined
            /\ dateStart' <= dateStart
            /\ dateEnd' >= dateEnd]_vars

\* A fetch was just issued for a range that does not reach both stored
\* bounds: an earlier fetch had asked for another, overlapping or disjoint,
\* range.
C3_Witness ==
    /\ out.cov = "no"
    /\ out.w # NoWindow
    /\ out.w[1] > dateStart \/ out.w[2] < dateEnd
    /\ dateStart = reqMinStart
    /\ dateEnd = reqMaxEnd

\* C4: a change of the set of cameras resets the coverage window with the
\* dataset: in a step that changes the cameras, either the window is unset
\* and the dataset empty afterwards, or the step itself asked for coverage,
\* was told there is none and fetched.
C4_CameraChangeResetsCoverage ==
    [][cameras' # cameras =>
        /\ out'.cov # "yes"
        /\ out'.cov = "none" =>
            /\ dateStart' = Undefined
            /\ dateEnd' = Undefined
            /\ dateFetch' = Undefined
            /\ dataset' = EmptyDataset]_vars

\* C5: the dataset holds one item per event identifier, stored under that
\* identifier; and an item that stays in the dataset keeps the clip and the
\* snapshot it has.
C5_MergeKeepsMedia ==
    /\ [](\A id \in DOMAIN dataset :
            dataset[id].id = id /\ dataset[id].event.id = id)
    /\ [][\A id \in DOMAIN dataset \cap DOMAIN dataset' :
            /\ dataset[id].clip # NoMedia => dataset'[id].clip # NoMedia
            /\ dataset[id].snapshot # NoMedia =>
                   dataset'[id].snapshot # NoMedia]_vars

\* A response was just merged into an item that now has both its clip and
\* its snapshot.
C5_Witness ==
    /\ out.op = "resolve"
    /\ "a" \in DOMAIN dataset
    /\ dataset["a"].clip # NoMedia
    /\ dataset["a"].snapshot # NoMedia

\* C6: when a view update reaches the placement of the window and the view's
\* context carries a window other than the widget's, the widget is left with
\* the context's window (not the padded window of the focused event, not the
\* live window).
C6_PersistedWindowFirst ==
    (out.fin = "placed" /\ out.ctx # NoWindow /\ out.ctx # out.tw) =>
        timeline.window = out.ctx

\* The persisted window was applied although an event is focused that lies
\* outside the widget's window and whose padded window is another one.
C6_Witness ==
    /\ out.fin = "placed"
    /\ out.ctx # NoWindow
    /\ out.ctx # out.tw
    /\ out.ev # NoEvent
    /\ eventOutsideWindow(out.ev, out.tw)
    /\ out.w # out.ctx
    /\ timeline.window = out.ctx
    /\ timeline.window # out.w

\* C7: clusterCriteria is false when either item is the focused event, false
\* when the labels differ, and true only for two items that are not the
\* focused event and have equal labels.
C7_ClusterCriteria ==
    probe.op = "clusterCriteria" =>
        /\ ( /\ view.media # NoEvent
             /\ view.media.id \in {probe.first.id, probe.second.id} )
               => ~probe.result
        /\ probe.first.event.label # probe.second.event.label => ~probe.result
        /\ probe.result =>
            /\ probe.first.id # view.media.id
            /\ probe.second.id # view.media.id
            /\ probe.first.event.label = probe.second.event.label

\* The second item is the focused event and the labels match.
C7_Witness ==
    /\ probe.op = "clusterCriteria"
    /\ view.media # NoEvent
    /\ probe.second.id = view.media.id
    /\ probe.first.id \notin {"", view.media.id}
    /\ probe.first.event.label = probe.second.event.label
    /\ ~probe.result

\* C8: for an event with start T and end E (seconds) the computed window is
\* [T - 3600 s, E + 3600 s]; when the view carries no event the computed
\* window is [now - 1 h, now].
C8_PaddedAndLiveWindow ==
    /\ ( /\ probe.op \in {"getStartEndFromEvent", "getStartEnd", "updateWindow"}
         /\ probe.event # NoEvent
         /\ probe.event.end_time # Undefined )
           => probe.result = <<(probe.event.start_time - 3600) * 1000,
                               (probe.event.end_time + 3600) * 1000>>
    /\ ( /\ probe.op \in {"getStartEnd", "updateWindow"}
         /\ view.media = NoEvent
         /\ view.target = NoEvent )
           => probe.result = <<now - 3600 * 1000, now>>

\* The scenario of the specification: the focused event lasted 300 s.
C8_Witness ==
    /\ probe.op = "updateWindow"
    /\ view.media # NoEvent
    /\ view.media.end_time = view.media.start_time + 300
    /\ probe.result = <<(view.media.start_time - 3600) * 1000,
                        (view.media.start_time + 300 + 3600) * 1000>>

\* C9: for an event without an end the computed window is 2 hours wide, from
\* one hour before the event's start to one hour after it.
C9_OpenEventWindow ==
    ( /\ probe.op \in {"getStartEndFromEvent", "updateWindow"}
      /\ probe.event # NoEvent
      /\ probe.event.end_time = Undefined )
        => probe.result = <<(probe.event.start_time - 3600) * 1000,
                            (probe.event.start_time + 3600) * 1000>>

\* The signals of the last step that dispatch a playlist to the view holder.
PlaylistDispatches == SelectSeq(out.signals, LAMBDA x : x.sig = "thumbnails")

\* C10: when _generateThumbnails finds the projection empty while a non-empty
\* playlist is the adopted one, it adopts the empty playlist and dispatches
\* it once.
C10_EmptyPlaylistDispatched ==
    [][ ( /\ out'.gen = "empty"
          /\ thumbnails.defined
          /\ thumbnails.children # <<>> )
        => /\ thumbnails' = [defined |-> TRUE, children |-> <<>>]
           /\ Len(PlaylistDispatches') = 1 ]_vars

\* Whether the filter asks for the item's clip and the clip is a playable
\* entry, not a placeholder.
WantsClip(item, media) ==
    /\ media \in {"all", "clips"}
    /\ item.clip # NoMedia
    /\ ~item.clip.can_expand

WantsSnapshot(item, media) ==
    /\ media \in {"all", "snapshots"}
    /\ item.snapshot # NoMedia
    /\ ~item.snapshot.can_expand

\* The entries of a projection are in event start-time order.
InStartOrder(ch) ==
    \A k \in 1..(Len(ch) - 1) :
        ch[k].event.start_time <= ch[k + 1].event.start_time

\* C11 (as the code has it): the projection lists, in event start-time
\* order, one entry at most per dataset item: the item's clip when the
\* filter is 'all' or 'clips' and the clip is playable, otherwise its
\* snapshot when the filter is 'all' or 'snapshots' and the snapshot is
\* playable; an item with both under 'all' contributes its clip only.
C11_OnePlayableEntryPerItem ==
    probe.op = "thumbnailProjection" =>
        LET ch == probe.result.children
            media == timelineConfig.media
        IN  /\ InStartOrder(ch)
            /\ \A k \in 1..Len(ch) : ch[k].event.id \in DOMAIN dataset
            /\ \A id \in DOMAIN dataset :
                LET item == dataset[id]
                    entries == {k \in 1..Len(ch) : ch[k].event.id = id}
                IN  IF WantsClip(item, media)
                    THEN \E k \in 1..Len(ch) :
                            entries = {k} /\ ch[k] = item.clip
                    ELSE IF WantsSnapshot(item, media)
                    THEN \E k \in 1..Len(ch) :
                            entries = {k} /\ ch[k] = item.snapshot
                    ELSE entries = {}

\* C11 (as stated): the projection lists, in event start-time order, every
\* item's clip when the filter wants clips and the clip is playable, and
\* every item's snapshot when the filter wants snapshots and the snapshot is
\* playable: both entries for an item that has both under 'all'.
C11_ClipAndSnapshotListed ==
    probe.op = "thumbnailProjection" =>
        LET ch == probe.result.children
            media == timelineConfig.media
        IN  /\ InStartOrder(ch)
            /\ \A id \in DOMAIN dataset :
                /\ WantsClip(dataset[id], media) <=>
                       \E k \in 1..Len(ch) : ch[k] = dataset[id].clip
                /\ WantsSnapshot(dataset[id], media) <=>
                       \E k \in 1..Len(ch) : ch[k] = dataset[id].snapshot

\* Two items were projected under 'all', one of them with a playable clip
\* and a playable snapshot.
C11_Witness ==
    /\ probe.op = "thumbnailProjection"
    /\ timelineConfig.media = "all"
    /\ Len(probe.result.children) = 2
    /\ \E id \in DOMAIN dataset :
        /\ WantsClip(dataset[id], "all")
        /\ WantsSnapshot(dataset[id], "all")

\* The error signals of the last step.
ErrorSignals == SelectSeq(out.signals, LAMBDA x : x.sig = "error")

\* A fetch that is started issues one query per camera and media kind.
FetchIssuesEveryQuery ==
    out'.cov = "no" =>
        \E i \in CallIds :
            /\ calls[i] = NoCall
            /\ calls'[i] # NoCall
            /\ {<<q.camera, q.mediaType>> : q \in calls'[i].pending}
                 = cameras' \X mediaTypes(timelineConfig'.media)

\* A step that changes the suspended invocation i settles exactly one of
\* its queries and leaves the siblings awaited; a failure emits one error
\* signal and leaves the dataset alone, an answer is merged and emits none;
\* the caller goes on as after a fetch exactly when no query is left.
QuerySettlesAlone(i) ==
    (calls[i] # NoCall /\ calls'[i] # calls[i]) =>
        LET left == IF calls'[i] = NoCall THEN {} ELSE calls'[i].pending
        IN  /\ out'.op \in {"resolve", "reject"}
            /\ \E q \in calls[i].pending :
                /\ left = calls[i].pending \ {q}
                /\ (out'.op = "reject") =>
                       (Len(ErrorSignals') = 1 /\ dataset' = dataset)
                /\ (out'.op = "resolve") =>
                       /\ Len(ErrorSignals') = 0
                       /\ dataset' = addMediaSource(dataset, q.camera,
                                                    q.children)
            /\ (left = {}) <=> (out'.gen # "none")

\* C12: a failure of one query of a fetch is caught and turned into one
\* error signal; every query of the fetch is issued, and the siblings of a
\* failed query stay awaited and are merged when answered; the invocation
\* returns, and its caller goes on as after a fetch, exactly when the last
\* query has settled, failed or not; and, every query settling eventually,
\* every suspended invocation eventually returns.
C12_FailureIsolatedCallResolves ==
    /\ [][FetchIssuesEveryQuery]_vars
    /\ [][\A i \in CallIds : QuerySettlesAlone(i)]_vars
    /\ \A k \in CallIds : (calls[k] # NoCall) ~> (calls[k] = NoCall)

\* Both queries of the first fetch failed (nothing was merged), the
\* invocation returned and the view update went on to place the window.
C12_Witness ==
    /\ updates = 1
    /\ pans = 0
    /\ timelineConfig.media = "all"
    /\ out.op = "reject"
    /\ Len(ErrorSignals) = 1
    /\ \A i \in CallIds : calls[i] = NoCall
    /\ dataset = EmptyDataset
    /\ view.media = NoEvent
    /\ out.gen # "none"
    /\ out.fin = "placed"

\* The signals of the last step that write a window to the view's context.
ContextSignals == SelectSeq(out.signals, LAMBDA x : x.sig = "context")

\* A user-driven range change checks coverage and, in the same step, writes
\* the widget's new window to the view's context and notifies the view
\* holder, once; a fetch it starts is still awaited after the step.
UserRangePersisted ==
    out'.op = "range" =>
        /\ out'.cov \in {"yes", "no"}
        /\ timeline'.window = out'.w
        /\ ContextSignals' = <<[sig |-> "context", window |-> out'.w]>>
        /\ (out'.cov = "no") =>
               \E i \in CallIds :
                   /\ calls[i] = NoCall
                   /\ calls'[i] # NoCall
                   /\ calls'[i].kind = "range"
                   /\ calls'[i].pending # {}

\* A range change that is not the user's checks nothing, fetches nothing and
\* signals nothing.
ProgrammaticRangeIgnored ==
    out'.op = "setWindow" =>
        /\ out'.cov = "none"
        /\ out'.signals = <<>>
        /\ UNCHANGED <<dateStart, dateEnd, dateFetch, dataset, calls, timeline,
                       thumbnails, view>>

\* C13: a range-change notification of the widget checks coverage (and
\* fetches) and writes the window to the view's context only when it is
\* user-driven, and then in the very step of the notification, before any
\* response arrives; a programmatic range change changes neither the
\* coverage window nor the view's context.
C13_OnlyUserRangePersists ==
    /\ [](Len(ContextSignals) > 0 => out.op = "range")
    /\ [][UserRangePersisted]_vars
    /\ [][ProgrammaticRangeIgnored]_vars

\* The user panned to a range that is not covered: the window was written
\* to the context while the fetch is awaited.
C13_Witness ==
    /\ out.op = "range"
    /\ out.cov = "no"
    /\ Len(ContextSignals) = 1
    /\ ContextSignals[1].window = timeline.window
    /\ \E i \in CallIds : calls[i] # NoCall /\ calls[i].kind = "range"

\* The selection that reflects a view: its focused event, or nothing.
FocusedSelection(v) == IF v.media # NoEvent THEN {v.media.id} ELSE {}

\* Whether a view update is suspended, awaiting its fetch.
UpdateInFlight == \E i \in CallIds : calls[i] # NoCall /\ calls[i].kind = "update"

\* C14: when a view update completes and leaves no view update in flight,
\* the widget's selection is exactly the event focused by the current view,
\* or empty if the view focuses none, whatever the interleaving of view
\* changes and the fetches they await.
C14_SelectionFollowsView ==
    [][(out'.fin = "placed" /\ ~UpdateInFlight') =>
            timeline'.selection = FocusedSelection(view')]_vars

\* The errors raised inside the element in the last step.
RaisedErrors == SelectSeq(out.signals, LAMBDA x : x.sig = "TypeError")

\* C15: no step raises an error inside the element: a handler that finds
\* the widget, the configuration or the cameras absent does nothing, a view
\* update that resumes after its fetch without the widget included.
C15_NothingRaised ==
    /\ Len(RaisedErrors) = 0
    /\ out.fin # "threw"

\* C16: a change of the set of cameras leaves every outstanding fetch
\* awaited (nothing is cancelled), and an answer is merged into the dataset
\* as it is when it arrives, whatever the cameras are by then; so the
\* dataset can hold items of cameras of the previous set.
C16_FetchSurvivesCameraChange ==
    /\ [][cameras' # cameras =>
            \A i \in CallIds : calls[i] # NoCall => calls'[i] = calls[i]]_vars
    /\ [][out'.op = "resolve" =>
            \E i \in CallIds :
                /\ calls[i] # NoCall
                /\ \E q \in calls[i].pending :
                       dataset' = addMediaSource(dataset, q.camera,
                                                 q.children)]_vars

\* An answer was just merged and the dataset holds an item of a camera that
\* is not among the present cameras.
C16_Witness ==
    /\ out.op = "resolve"
    /\ \E id \in DOMAIN dataset : dataset[id].group \notin cameras

\* Whether <<s, e>> lies inside the stored bounds: it ends before the stored
\* end, or at it while that end is within the threshold of now.
InsideBounds(s, e) ==
    /\ dateStart <= s
    /\ s <= e
    /\ \/ e < dateEnd
       \/ e = dateEnd /\ now - e <= maxAgeSeconds * MsPerSecond

\* A fetch widens the bounds to hold the requested range and stamps the
\* clock, and the queries it issues already ask for the widened bounds.
WidenedBeforeQueries ==
    out'.cov = "no" =>
        /\ dateFetch' = now
        /\ dateStart' <= out'.w[1]
        /\ dateEnd' >= out'.w[2]
        /\ \A i \in CallIds :
               (calls[i] = NoCall /\ calls'[i] # NoCall) =>
                   \A q \in calls'[i].pending :
                       /\ q.after * MsPerSecond = dateStart'
                       /\ q.before * MsPerSecond = dateEnd'

\* A failed query leaves the bounds and the stamp alone, and coverage of the
\* ranges inside the bounds with it while the fetch is fresh.
FailureKeepsCoverage ==
    out'.op = "reject" =>
        /\ UNCHANGED <<dateStart, dateEnd, dateFetch>>
        /\ Fresh =>
            \A s \in {dateStart, dateStart + 1, dateEnd - 1, dateEnd},
               e \in {dateStart, dateStart + 1, dateEnd - 1, dateEnd} :
                InsideBounds(s, e) =>
                    hasCoverage(dateStart', dateEnd', dateFetch',
                                maxAgeSeconds', now', s, e)

\* No fetch is started for a range inside the bounds while the last fetch
\* is fresh, whatever became of its queries.
NoRetryWhileFresh ==
    out'.cov = "no" =>
        \/ dateFetch = Undefined
        \/ ~Fresh
        \/ ~InsideBounds(out'.w[1], out'.w[2])

RawOutside(event, tw) ==
    \/ event.start_time * 1000 < tw[1]
    \/ event.start_time * 1000 > tw[2]
    \/ /\ event.end_time # Undefined
       /\ \/ event.end_time * 1000 < tw[1]
          \/ event.end_time * 1000 > tw[2]

\* What the event and live rules leave the widget with after a view update
\* that reached the placement: the focused event's padded window when the
\* event is outside the widget's window, the widget's window when it is
\* inside, the live window (one hour up to the clock of the update) when no
\* event is focused.
EventOrLivePlacement ==
    /\ out.ev # NoEvent =>
        /\ out.w = getStartEndFromEvent(out.ev)
        /\ timeline.window = IF RawOutside(out.ev, out.tw) THEN out.w
                              ELSE out.tw
    /\ out.ev = NoEvent =>
        /\ timeline.window = out.w
        /\ out.w[2] - out.w[1] = 3600 * 1000
        /\ out.w[2] <= now
        /\ out.op = "updated" => out.w[2] = now

\* C18 (as the code has it): on a view update that carries no persisted
\* window the event and live rules place the window; on one that carries a
\* persisted window equal to the widget's window the window is left as it
\* is, whatever the view focuses.
C18_PlacementWithoutPersistedWindow ==
    out.fin = "placed" =>
        /\ out.ctx = NoWindow => EventOrLivePlacement
        /\ (out.ctx # NoWindow /\ out.ctx = out.tw) =>
               timeline.window = out.tw

\* C18 (as stated): the event and live rules place the window on every
\* view update on which the persisted-window rule does not fire: no
\* persisted window, or one equal to the widget's window.
C18_PlacementWhenRuleOneIdle ==
    (out.fin = "placed" /\ (out.ctx = NoWindow \/ out.ctx = out.tw)) =>
        EventOrLivePlacement

\* A view without an event carried the window the widget already shows:
\* the widget was left there, not moved to the live window.
C18_Witness ==
    /\ out.fin = "placed"
    /\ out.ctx # NoWindow
    /\ out.ctx = out.tw
    /\ out.ev = NoEvent
    /\ timeline.window = out.tw
    /\ timeline.window # out.w

\* The view-change dispatches of thumbnails among the signals of a step.
ThumbnailSignals(o) == SelectSeq(o.signals, LAMBDA x : x.sig = "thumbnails")

\* The playable media of the dataset under the filter, in start order: what
\* a regeneration builds.
BuiltPlaylist ==
    LET ids == {i \in DOMAIN dataset :
                  \/ WantsClip(dataset[i], timelineConfig.media)
                  \/ WantsSnapshot(dataset[i], timelineConfig.media)}
    IN  CHOOSE q \in [1..Cardinality(ids) -> UNION {{dataset[i].clip,
                                                     dataset[i].snapshot} : i \in ids}] :
          \E o \in [1..Cardinality(ids) -> ids] :
             /\ \A j, k \in DOMAIN o :
                   j < k => dataset[o[j]].start < dataset[o[k]].start
             /\ \A j \in DOMAIN o :
                   q[j] = IF WantsClip(dataset[o[j]], timelineConfig.media)
                          THEN dataset[o[j]].clip ELSE dataset[o[j]].snapshot

\* A regeneration that builds the playlist it holds dispatches nothing and
\* keeps the playlist; one that dispatches has adopted a different playlist,
\* the one it dispatched.
RegenerationNotifiesOnChange ==
    probe'.regenerations # probe.regenerations =>
        /\ (thumbnails.defined /\ thumbnails.children = BuiltPlaylist) =>
               /\ ThumbnailSignals(out') = <<>>
               /\ thumbnails' = thumbnails
        /\ ThumbnailSignals(out') # <<>> =>
               /\ Len(ThumbnailSignals(out')) = 1
               /\ thumbnails' # thumbnails
               /\ thumbnails'.children = ThumbnailSignals(out')[1].children
        /\ ThumbnailSignals(out') = <<>> => thumbnails' = thumbnails

\* C19: a regeneration notifies the view holder only when the playlist it
\* built differs from the adopted one, and however often the playlist is
\* regenerated over the same dataset and filter at most one dispatch is made.
C19_DispatchOnlyOnRealChange ==
    /\ [][RegenerationNotifiesOnChange]_vars
    /\ [](probe.dispatches <= 1)

\* The playlist was regenerated three times under one filter, with another
\* selection the last time: one dispatch, and the last regeneration found
\* the playlist it holds.
C19_Witness ==
    /\ probe.regenerations = MaxRegenerations
    /\ probe.filters = 0
    /\ probe.dispatches = 1
    /\ out.gen = "same"
    /\ thumbnails.defined
    /\ Len(thumbnails.children) = 2
    /\ timeline.selection # {}

\* The dataset one fetch of the range [dateStart, dateEnd] builds: the
\* responses of the cameras for the kinds of the filter, merged into an
\* empty dataset.
SingleFetchDataset ==
    LET cam == CHOOSE c \in cameras : TRUE
        response(t) == browseMediaQuery(server, cam, t,
                                        dateEnd \div MsPerSecond,
                                        dateStart \div MsPerSecond)
        clips == IF "clips" \in mediaTypes(timelineConfig.media)
                 THEN addMediaSource(EmptyDataset, cam, response("clips"))
                 ELSE EmptyDataset
    IN  IF "snapshots" \in mediaTypes(timelineConfig.media)
        THEN addMediaSource(clips, cam, response("snapshots"))
        ELSE clips

IssuedQueriesAskStoredRange(i) ==
    (calls[i] = NoCall /\ calls'[i] # NoCall) =>
        /\ calls'[i].pending # {}
        /\ \A q \in calls'[i].pending :
              /\ q.after * 1000 = dateStart'
              /\ q.before * 1000 = dateEnd'
        /\ dateStart' <= calls'[i].w[1]
        /\ dateEnd' >= calls'[i].w[2]
        /\ dateStart' <= reqMinStart'
        /\ dateEnd' >= reqMaxEnd'
        /\ reqMinStart # Undefined =>
              (reqMinStart' <= reqMinStart /\ reqMaxEnd' >= reqMaxEnd)

\* C21: every query a fetch issues asks for the whole widened range
\* [dateStart, dateEnd] as it stands when the query is issued, which reaches
\* every start and end a fetch was requested for so far, and not just for
\* the range of the request that started the fetch.
C21_QueriesAskFullRange ==
    [][\A i \in DOMAIN calls : IssuedQueriesAskStoredRange(i)]_vars

\* A fetch was just started for a request that the stored range exceeds on
\* one side: its queries ask for more than the request.
C21_Witness ==
    /\ out.cov = "no"
    /\ \E i \in DOMAIN calls :
          /\ calls[i] # NoCall
          /\ calls[i].w = out.w
          /\ \E q \in calls[i].pending :
                /\ q.after * 1000 = dateStart
                /\ q.before * 1000 = dateEnd
                /\ q.after * 1000 < out.w[1] \/ q.before * 1000 > out.w[2]

\* C22: every item of the dataset is of type 'range' exactly when it
\* carries an end and of type 'point' exactly when it carries none,
\* whatever responses were merged and in whatever order.
C22_TypeMatchesEnd ==
    \A i \in DOMAIN dataset :
        /\ dataset[i].type \in {"range", "point"}
        /\ dataset[i].type = "range" <=> dataset[i].end # Undefined

\* C23: when a view update dispatches a regenerated playlist, the focus
\* index it sends is the position in that playlist of the event the view
\* being processed focuses, or none when the view focuses no event or the
\* event is not in the playlist.
C23_FocusIndexOfViewedEvent ==
    out.fin # "none" =>
        \A k \in DOMAIN out.signals :
            out.signals[k].sig = "thumbnails" =>
                LET children == out.signals[k].children
                    at == {j \in DOMAIN children :
                             children[j].event.id = out.ev.id}
                IN  IF out.ev = NoEvent \/ at = {}
                    THEN out.signals[k].childIndex = Undefined
                    ELSE out.signals[k].childIndex + 1 \in at

====
